---- MODULE Spec2Model ----
(***************************************************************************)
(* Streaming format detection and statistics aggregation of the            *)
(* efficient-data-pipeline repository:                                     *)
(*   - EfficientDataPipeline  (src/data_pipeline.py, pandas chunks)        *)
(*   - SimpleDataAnalyzer     (src/example_analysis.py, csv.reader rows)   *)
(*   - QuickDataAnalyzer      (src/quick_demo.py, csv.reader, sampled)     *)
(*                                                                         *)
(* Text is a sequence of one-character strings, a cell is a string, a row  *)
(* is a sequence of cells.  The cells that parse as numbers are the        *)
(* decimal numerals of Numerals; a number is held as an integer, its value *)
(* in hundredths (10.5 is 1050).                                           *)
(***************************************************************************)
EXTENDS Integers, Sequences, FiniteSets, TLC

VARIABLES
    csv_header,        \* the file's first line, as characters (<<>>: the file is empty)
    csv_rows,          \* the file's other lines, each already cut into cells
    chunk_size,        \* EfficientDataPipeline.chunk_size
    readable,          \* the file at csv_path exists and can be opened
    max_rows,          \* QuickDataAnalyzer.max_rows
    encoding,          \* self.encoding
    separator,         \* self.separator
    total_rows,        \* self.total_rows
    pc,                \* the step of the run that comes next
    file_properties,   \* what detect_file_properties returned
    structure_info,    \* what analyze_file_structure returned
    sample_data,       \* what get_sample_data returned
    null_analysis,     \* what analyze_null_values returned
    numeric_stats,     \* calculate_descriptive_statistics: numeric_stats
    categorical_stats, \* calculate_descriptive_statistics: categorical_stats
    chunk_pos,         \* rows of the file the chunk iterator has already delivered
    descriptive_stats, \* what calculate_descriptive_statistics returned
    result,            \* what the run returned to its caller
    report_file,       \* the report file of the run: "absent" or "written"
    acc_a, acc_b, acc_c,   \* numeric accumulators handed to the merge step
    cat_a, cat_b, cat_c,   \* categorical accumulators handed to the merge step
    merged             \* the merges computed from them

vars == <<csv_header, csv_rows, chunk_size, readable, max_rows, encoding, separator,
          total_rows, pc, file_properties, structure_info, sample_data,
          null_analysis, numeric_stats, categorical_stats, chunk_pos,
          descriptive_stats, result, report_file,
          acc_a, acc_b, acc_c, cat_a, cat_b, cat_c, merged>>

(***************************************************************************)
(* Bounds of the model.                                                    *)
(***************************************************************************)
\* longest first line drawn for the separator detector
MaxLineLen == 4
\* most data rows in a file
MaxRows == 3
\* largest chunk_size tried
MaxChunk == 3
\* the numeric sample cap (10000 in src/data_pipeline.py:240), scaled down
SampleCap == 2
\* longest list of cells a merge operand was aggregated from
MaxOperand == 2
\* longest list of cells a categorical merge operand was counted from
MaxCategoricalOperand == 3
\* the rows read for the type inference of analyze_file_structure
\* (nrows=1000 in src/data_pipeline.py:120), scaled down
TypeSampleRows == 2

\* sorted_counts[:5]
TopK == 5
\* QuickDataAnalyzer(csv_path, max_rows=10000)
DefaultMaxRows == 10000

\* get_sample_data(nrows=5)
SampleRows == 5

\* Python's None where a string is expected
None == "None"

\* a result not yet computed
NoValue == [none |-> TRUE]

(***************************************************************************)
(* Text helpers: str.strip() and str.split(sep).                           *)
(***************************************************************************)
TAB == "\t"

Whitespace == {" ", TAB, "\n", "\r"}

RECURSIVE LStrip(_)
LStrip(s) ==
    IF s # <<>> /\ Head(s) \in Whitespace THEN LStrip(Tail(s)) ELSE s

RECURSIVE RStrip(_)
RStrip(s) ==
    IF s # <<>> /\ s[Len(s)] \in Whitespace
    THEN RStrip(SubSeq(s, 1, Len(s) - 1))
    ELSE s

\* str.strip(): leading and trailing whitespace removed
Strip(s) == RStrip(LStrip(s))

RECURSIVE SplitFrom(_, _, _, _, _)
SplitFrom(s, sep, i, cur, out) ==
    IF i > Len(s) THEN Append(out, cur)
    ELSE IF s[i] = sep THEN SplitFrom(s, sep, i + 1, <<>>, Append(out, cur))
    ELSE SplitFrom(s, sep, i + 1, Append(cur, s[i]), out)

\* str.split(sep): the fields between the occurrences of sep
Split(s, sep) == SplitFrom(s, sep, 1, <<>>, <<>>)

(***************************************************************************)
(* Separator detection (the loop shared by the three analyzers).           *)
(***************************************************************************)
separators == <<",", ";", TAB, "|">>

RECURSIVE DetectLoopCountsSeparators(_, _, _, _)
DetectLoopCountsSeparators(first_line, i, max_columns, best_separator) ==
    IF i > Len(separators)
    THEN [separator |-> best_separator, columns_count |-> max_columns]
    ELSE LET columns == Split(first_line, separators[i])
         IN  IF Len(columns) - 1 > max_columns
             THEN DetectLoopCountsSeparators(first_line, i + 1, Len(columns) - 1,
                                             separators[i])
             ELSE DetectLoopCountsSeparators(first_line, i + 1, max_columns,
                                             best_separator)

RECURSIVE DetectLoop(_, _, _, _)
DetectLoop(first_line, i, max_columns, best_separator) ==
    IF i > Len(separators)
    THEN [separator |-> best_separator, columns_count |-> max_columns]
    ELSE LET columns == Split(first_line, separators[i])
         IN  IF Len(columns) > max_columns
             THEN DetectLoop(first_line, i + 1, Len(columns), separators[i])
             ELSE DetectLoop(first_line, i + 1, max_columns, best_separator)

\* max_columns = 0; best_separator = ','; then the loop
DetectSeparator(first_line) == DetectLoop(first_line, 1, 0, ",")

(***************************************************************************)
(* Cells, numbers and the float values inf, -inf and NaN.                  *)
(***************************************************************************)
NumericCells == {"1", "2"}

Cells == {"", "x"} \cup NumericCells

\* every cell that parses as a number: the numerals drawn for the files and
\* those of the worked example
Numerals == NumericCells \cup {"3", "10.5", "20.0"}

\* float(cell) / the parser's conversion of a numeric cell, in hundredths
ParseNumber(c) ==
    CASE c = "1"    -> 100
      [] c = "2"    -> 200
      [] c = "3"    -> 300
      [] c = "10.5" -> 1050
      [] c = "20.0" -> 2000

Num(n) == [kind |-> "num", v |-> n]

PosInf == [kind |-> "inf", v |-> 1]

NegInf == [kind |-> "inf", v |-> -1]

NaN == [kind |-> "nan", v |-> 0]

\* x < y on floats: every comparison with NaN is false
Less(x, y) ==
    IF x.kind = "nan" \/ y.kind = "nan" THEN FALSE
    ELSE IF x.kind = "num" /\ y.kind = "num" THEN x.v < y.v
    ELSE IF x.kind = "inf" THEN x.v = -1 /\ ~(y.kind = "inf" /\ y.v = -1)
    ELSE y.v = 1

\* Python's min(a, b): b only when b < a
PyMin(a, b) == IF Less(b, a) THEN b ELSE a

\* Python's max(a, b): b only when b > a
PyMax(a, b) == IF Less(a, b) THEN b ELSE a

RECURSIVE Gcd(_, _)
Gcd(m, n) == IF n = 0 THEN m ELSE Gcd(n, m % n)

\* the quotient num / den of two naturals, den > 0, as a fraction in lowest terms
Quotient(num, den) ==
    LET g == Gcd(num, den) IN [num |-> num \div g, den |-> den \div g]

(***************************************************************************)
(* Sequence helpers.                                                       *)
(***************************************************************************)
Min2(m, n) == IF m < n THEN m ELSE n

\* the first n elements of s (s[:n])
Take(s, n) == SubSeq(s, 1, Min2(n, Len(s)))

\* the elements of s after the first n (s[n:])
Drop(s, n) == SubSeq(s, Min2(n, Len(s)) + 1, Len(s))

RECURSIVE SumOf(_)
SumOf(ns) == IF ns = <<>> THEN 0 ELSE Head(ns) + SumOf(Tail(ns))

\* all sequences over S of length at most n
SeqsUpTo(S, n) == UNION {[1..k -> S] : k \in 0..n}

(***************************************************************************)
(* What pandas makes of a chunk's column (read_csv infers the dtype of     *)
(* each column chunk by chunk): an empty cell is NaN; the column is        *)
(* numeric when every other cell is a number, and object otherwise, its    *)
(* cells then kept as strings.  A frame without rows has object columns.   *)
(***************************************************************************)
\* the cells read_csv turns into NaN: the empty cell and its default
\* na_values ('NA' stands for them: 'N/A', 'NULL', 'NaN', 'None', 'null', ...)
NaValues == {"", "NA"}

IsNull(c) == c \in NaValues

RECURSIVE NonNull(_)
\* the cells of a column that are not NaN, in order (dropna)
NonNull(cells) ==
    IF cells = <<>> THEN <<>>
    ELSE IF IsNull(Head(cells)) THEN NonNull(Tail(cells))
    ELSE <<Head(cells)>> \o NonNull(Tail(cells))

\* chunk.select_dtypes(include=[np.number]) holds the column
IsNumericColumn(cells) ==
    /\ cells # <<>>
    /\ \A i \in 1..Len(cells) : IsNull(cells[i]) \/ cells[i] \in Numerals

\* chunk[col].dropna().tolist() of a numeric column
DropNa(cells) ==
    LET kept == NonNull(cells)
    IN  [i \in 1..Len(kept) |-> ParseNumber(kept[i])]

RECURSIVE MinOf(_)
\* Series.min(): NaN skipped, NaN when nothing is left
MinOf(ns) ==
    IF ns = <<>> THEN NaN
    ELSE IF Len(ns) = 1 THEN Num(ns[1])
    ELSE LET m == MinOf(Tail(ns)) IN IF Head(ns) < m.v THEN Num(Head(ns)) ELSE m

RECURSIVE MaxOf(_)
\* Series.max(): NaN skipped, NaN when nothing is left
MaxOf(ns) ==
    IF ns = <<>> THEN NaN
    ELSE IF Len(ns) = 1 THEN Num(ns[1])
    ELSE LET m == MaxOf(Tail(ns)) IN IF Head(ns) > m.v THEN Num(Head(ns)) ELSE m

\* chunk[col].sum(), .count(), .min(), .max() and .dropna().tolist()
ChunkNumeric(cells) ==
    LET ns == DropNa(cells)
    IN  [sum |-> SumOf(ns), count |-> Len(ns), min |-> MinOf(ns),
         max |-> MaxOf(ns), values |-> ns]

(***************************************************************************)
(* Numeric accumulator and its fold step.                                  *)
(***************************************************************************)
\* numeric_stats[col] as first created
EmptyNumeric ==
    [sum |-> 0, count |-> 0, min |-> PosInf, max |-> NegInf, values |-> <<>>]

\* a fold step that overwrites the running minimum with the chunk's minimum
MergeNumericOverwritesMin(a, b) ==
    [sum    |-> a.sum + b.sum,
     count  |-> a.count + b.count,
     min    |-> b.min,
     max    |-> PyMax(a.max, b.max),
     values |-> IF Len(a.values) < SampleCap THEN a.values \o b.values
                ELSE a.values]

\* a fold step that calls min and max with the chunk's value first:
\* min(nan, x) and max(nan, x) are nan
MergeNumericChunkFirst(a, b) ==
    [sum    |-> a.sum + b.sum,
     count  |-> a.count + b.count,
     min    |-> PyMin(b.min, a.min),
     max    |-> PyMax(b.max, a.max),
     values |-> IF Len(a.values) < SampleCap THEN a.values \o b.values
                ELSE a.values]

\* the update of numeric_stats[col] (a) with a chunk's aggregates (b)
MergeNumeric(a, b) ==
    [sum    |-> a.sum + b.sum,
     count  |-> a.count + b.count,
     min    |-> PyMin(a.min, b.min),
     max    |-> PyMax(a.max, b.max),
     values |-> IF Len(a.values) < SampleCap THEN a.values \o b.values
                ELSE a.values]

(***************************************************************************)
(* Categorical accumulator: a dict, kept as the sequence of its items in   *)
(* insertion order.                                                        *)
(***************************************************************************)
\* value in d
HasKey(d, value) == \E i \in 1..Len(d) : d[i].value = value

\* d[value], 0 when the key is absent
CountOf(d, value) ==
    IF HasKey(d, value)
    THEN d[CHOOSE i \in 1..Len(d) : d[i].value = value].count
    ELSE 0

\* d.keys() as a set
Keys(d) == {d[i].value : i \in 1..Len(d)}

\* the dict as a mapping: what Python's == on dicts compares
AsMap(d) == [value \in Keys(d) |-> CountOf(d, value)]

\* sum(d.values())
SumCounts(d) == SumOf([i \in 1..Len(d) |-> d[i].count])

\* an update that assigns the chunk's count to a key already present
DictAddOverwrites(d, value, count) ==
    IF HasKey(d, value)
    THEN [i \in 1..Len(d) |->
            IF d[i].value = value
            THEN [value |-> value, count |-> count]
            ELSE d[i]]
    ELSE Append(d, [value |-> value, count |-> count])

\* if value in d: d[value] += count  else: d[value] = count
DictAdd(d, value, count) ==
    IF HasKey(d, value)
    THEN [i \in 1..Len(d) |->
            IF d[i].value = value
            THEN [value |-> value, count |-> d[i].count + count]
            ELSE d[i]]
    ELSE Append(d, [value |-> value, count |-> count])

RECURSIVE InsertByCount(_, _)
\* x put behind the items of sorted whose count is at least x's
InsertByCount(sorted, x) ==
    IF sorted = <<>> THEN <<x>>
    ELSE IF Head(sorted).count >= x.count
         THEN <<Head(sorted)>> \o InsertByCount(Tail(sorted), x)
         ELSE <<x>> \o sorted

RECURSIVE SortFrom(_, _)
SortFrom(items, sorted) ==
    IF items = <<>> THEN sorted
    ELSE SortFrom(Tail(items), InsertByCount(sorted, Head(items)))

\* sorted(items, key=count, reverse=True): stable, equal counts keep their order
SortByCountDesc(items) == SortFrom(items, <<>>)

RECURSIVE CountCells(_, _)
CountCells(cells, d) ==
    IF cells = <<>> THEN d
    ELSE CountCells(Tail(cells), DictAdd(d, Head(cells), 1))

\* value_counts(dropna=False): the empty cells counted as a value of their own
ValueCountsKeepsNaN(cells) == SortByCountDesc(CountCells(cells, <<>>))

\* chunk[col].value_counts(): NaN left out, most frequent first
ValueCounts(cells) == SortByCountDesc(CountCells(NonNull(cells), <<>>))

RECURSIVE MergeCategorical(_, _)
\* for value, count in value_counts.items(): add it to categorical_stats[col]
MergeCategorical(d, value_counts) ==
    IF value_counts = <<>> THEN d
    ELSE MergeCategorical(
            DictAdd(d, Head(value_counts).value, Head(value_counts).count),
            Tail(value_counts))

(***************************************************************************)
(* The input file.  Its bytes are ASCII; the first line is kept as text    *)
(* (the detector reads it), the other lines as rows of cells.  A line      *)
(* without cells is a blank line, a line with fewer cells than the header  *)
(* has columns is a short row.                                             *)
(***************************************************************************)
\* the header line  a,c
HeaderLine == <<"a", ",", "c">>

\* the example line  a,b;c,d,e
ExampleLine == <<"a", ",", "b", ";", "c", ",", "d", ",", "e">>

LineChars == {"a", ",", ";", TAB, "|"}

\* first lines tried on the detector
FirstLines == SeqsUpTo(LineChars, MaxLineLen) \cup {ExampleLine, HeaderLine}

\* a file without any byte
IsEmptyFile(header, rows) == header = <<>> /\ rows = <<>>

FileIsEmpty == IsEmptyFile(csv_header, csv_rows)

\* sum(1 for _ in file): the lines of a file
LinesOf(header, rows) == IF IsEmptyFile(header, rows) THEN 0 ELSE 1 + Len(rows)

LineCount == LinesOf(csv_header, csv_rows)

\* chardet.detect(raw_data) on ASCII bytes, and on no bytes at all
ChardetDetect(header, rows) ==
    IF IsEmptyFile(header, rows)
    THEN [encoding |-> None, confidence |-> 0]
    ELSE [encoding |-> "ascii", confidence |-> 1]

(***************************************************************************)
(* EfficientDataPipeline.detect_file_properties                            *)
(***************************************************************************)
IdleRun ==
    /\ max_rows = DefaultMaxRows
    /\ encoding = None
    /\ separator = None
    /\ total_rows = 0
    /\ file_properties = NoValue
    /\ structure_info = NoValue
    /\ sample_data = NoValue
    /\ null_analysis = NoValue
    /\ numeric_stats = <<>>
    /\ categorical_stats = <<>>
    /\ chunk_pos = 0
    /\ descriptive_stats = NoValue
    /\ result = NoValue
    /\ report_file = "absent"

IdleMerge ==
    /\ acc_a = EmptyNumeric /\ acc_b = EmptyNumeric /\ acc_c = EmptyNumeric
    /\ cat_a = <<>> /\ cat_b = <<>> /\ cat_c = <<>>
    /\ merged = NoValue

file_vars == <<csv_header, csv_rows, chunk_size, readable, max_rows>>

merge_vars == <<acc_a, acc_b, acc_c, cat_a, cat_b, cat_c, merged>>

\* the dictionary detect_file_properties returns
FilePropertiesOf(header, rows) ==
    LET detected   == ChardetDetect(header, rows)
        first_line == Strip(header)
        best       == DetectSeparator(first_line)
    IN  [encoding      |-> detected.encoding,
         separator     |-> best.separator,
         confidence    |-> detected.confidence,
         columns_count |-> best.columns_count]

\* step 1; open() raises when the file is missing or cannot be read
DetectFileProperties ==
    /\ pc = "detect"
    /\ IF ~readable
       THEN /\ pc' = "error"
            /\ UNCHANGED <<encoding, separator, file_properties>>
       ELSE /\ LET properties == FilePropertiesOf(csv_header, csv_rows)
               IN  /\ encoding' = properties.encoding
                   /\ separator' = properties.separator
                   /\ file_properties' = properties
            /\ pc' = "structure"
    /\ UNCHANGED <<total_rows, structure_info, sample_data, null_analysis,
                   numeric_stats, categorical_stats, chunk_pos,
                   descriptive_stats, result>>
    /\ UNCHANGED <<file_vars, merge_vars, report_file>>

(***************************************************************************)
(* pandas.read_csv on the file: the header gives the columns, blank lines  *)
(* are skipped, a short row is filled up with NaN.                         *)
(***************************************************************************)
\* the column names read_csv takes from the header line
ColumnsOf(header, sep) == Split(header, sep)

IsBlankLine(row) == row = <<>>

\* a row whose field count differs from the header's column count
IsMalformed(row, ncols) == Len(row) # ncols

\* the row as a frame holds it: missing trailing cells are NaN
PadRow(row, ncols) ==
    [j \in 1..ncols |-> IF j <= Len(row) THEN row[j] ELSE ""]

RECURSIVE FrameOf(_, _)
\* the rows of the whole frame, in file order
FrameOf(rows, ncols) ==
    IF rows = <<>> THEN <<>>
    ELSE IF IsBlankLine(Head(rows)) THEN FrameOf(Tail(rows), ncols)
    ELSE <<PadRow(Head(rows), ncols)>> \o FrameOf(Tail(rows), ncols)

\* chunk[col]: the cells of column j of a chunk
ColumnCells(chunk, j) == [i \in 1..Len(chunk) |-> chunk[i][j]]

\* the position of a column name in the header
ColumnIndex(columns, col) == CHOOSE j \in 1..Len(columns) : columns[j] = col

\* chunk.isnull().sum() of column j
NullCount(chunk, j) ==
    Cardinality({i \in 1..Len(chunk) : IsNull(chunk[i][j])})

(***************************************************************************)
(* calculate_descriptive_statistics: the body of the chunk loop, and the   *)
(* final statistics.                                                       *)
(***************************************************************************)
\* the columns of the chunk that select_dtypes(include=[np.number]) gives
NumericCols(chunk, columns) ==
    {columns[j] : j \in {k \in 1..Len(columns) :
                            IsNumericColumn(ColumnCells(chunk, k))}}

\* the columns of the chunk that select_dtypes(include=['object']) gives
ObjectCols(chunk, columns) ==
    {columns[j] : j \in {k \in 1..Len(columns) :
                            ~IsNumericColumn(ColumnCells(chunk, k))}}

\* numeric_stats and categorical_stats after one more chunk
FoldChunk(stats, chunk, columns) ==
    LET numeric_cols     == NumericCols(chunk, columns)
        categorical_cols == ObjectCols(chunk, columns)
        cells(col)       == ColumnCells(chunk, ColumnIndex(columns, col))
    IN  [numeric |->
            [col \in DOMAIN stats.numeric \cup numeric_cols |->
                IF col \in numeric_cols
                THEN MergeNumeric(IF col \in DOMAIN stats.numeric
                                  THEN stats.numeric[col]
                                  ELSE EmptyNumeric,
                                  ChunkNumeric(cells(col)))
                ELSE stats.numeric[col]],
         categorical |->
            [col \in DOMAIN stats.categorical \cup categorical_cols |->
                IF col \in categorical_cols
                THEN MergeCategorical(IF col \in DOMAIN stats.categorical
                                      THEN stats.categorical[col]
                                      ELSE <<>>,
                                      ValueCounts(cells(col)))
                ELSE stats.categorical[col]]]

\* the statistics containers before the first chunk
NoStats == [numeric |-> <<>>, categorical |-> <<>>]

RECURSIVE FoldFrame(_, _, _, _)
\* the chunk loop over a frame that still has rows to deliver
FoldFrame(stats, frame, size, columns) ==
    IF frame = <<>> THEN stats
    ELSE FoldFrame(FoldChunk(stats, Take(frame, size), columns),
                   Drop(frame, size), size, columns)

\* the whole chunk loop: a frame without rows is delivered as one empty chunk
FoldAll(frame, size, columns) ==
    IF frame = <<>> THEN FoldChunk(NoStats, <<>>, columns)
    ELSE FoldFrame(NoStats, frame, size, columns)

\* final_stats: the numeric columns with count > 0, then the categorical ones
FinalStats(stats, rows_total) ==
    LET reported == {col \in DOMAIN stats.numeric : stats.numeric[col].count > 0}
    IN  [col \in reported \cup DOMAIN stats.categorical |->
            IF col \in DOMAIN stats.categorical
            THEN [unique_values |-> Len(stats.categorical[col]),
                  top_5_values  |-> Take(SortByCountDesc(stats.categorical[col]), TopK),
                  null_count    |-> rows_total - SumCounts(stats.categorical[col])]
            ELSE [mean       |-> Quotient(stats.numeric[col].sum,
                                          stats.numeric[col].count),
                  min        |-> stats.numeric[col].min,
                  max        |-> stats.numeric[col].max,
                  count      |-> stats.numeric[col].count,
                  null_count |-> rows_total - stats.numeric[col].count]]

(***************************************************************************)
(* analyze_null_values: the chunk loop and the percentages.                *)
(***************************************************************************)
\* null_counts and total_rows after one more chunk
NullChunk(nulls, chunk, columns) ==
    [null_counts |->
        [col \in {columns[j] : j \in 1..Len(columns)} |->
            IF nulls.total_rows = 0
            THEN NullCount(chunk, ColumnIndex(columns, col))
            ELSE nulls.null_counts[col] + NullCount(chunk, ColumnIndex(columns, col))],
     total_rows |-> nulls.total_rows + Len(chunk)]

RECURSIVE NullFrame(_, _, _, _)
NullFrame(nulls, frame, size, columns) ==
    IF frame = <<>> THEN nulls
    ELSE NullFrame(NullChunk(nulls, Take(frame, size), columns),
                   Drop(frame, size), size, columns)

\* the whole loop: a frame without rows is delivered as one empty chunk
NullAll(frame, size, columns) ==
    IF frame = <<>>
    THEN NullChunk([null_counts |-> <<>>, total_rows |-> 0], <<>>, columns)
    ELSE NullFrame([null_counts |-> <<>>, total_rows |-> 0], frame, size, columns)

(***************************************************************************)
(* EfficientDataPipeline.run_complete_analysis, step by step.              *)
(***************************************************************************)
Columns == ColumnsOf(csv_header, separator)

Frame == FrameOf(csv_rows, Len(Columns))

\* the dictionary analyze_file_structure returns (file sizes left out)
StructureInfoOf(header, rows, sep) ==
    LET columns == ColumnsOf(header, sep)
        sample  == Take(FrameOf(rows, Len(columns)), TypeSampleRows)
    IN  [total_rows    |-> LinesOf(header, rows) - 1,
         columns       |-> columns,
         columns_count |-> Len(columns),
         dtypes        |->
            [col \in {columns[j] : j \in 1..Len(columns)} |->
                IF IsNumericColumn(ColumnCells(sample, ColumnIndex(columns, col)))
                THEN "number" ELSE "object"]]

\* the dictionary analyze_null_values returns after a pass that saw rows
NullAnalysisOf(frame, size, columns) ==
    LET nulls == NullAll(frame, size, columns)
    IN  [null_counts      |-> nulls.null_counts,
         null_percentages |->
            [col \in DOMAIN nulls.null_counts |->
                Quotient(nulls.null_counts[col] * 100, nulls.total_rows)],
         total_rows       |-> nulls.total_rows]

\* step 2: the line count, then the header and the dtypes of a sample;
\* read_csv raises EmptyDataError on a file without a header line
AnalyzeFileStructure ==
    /\ pc = "structure"
    /\ total_rows' = LineCount - 1
    /\ IF FileIsEmpty
       THEN /\ pc' = "error"
            /\ UNCHANGED structure_info
       ELSE /\ structure_info' = StructureInfoOf(csv_header, csv_rows, separator)
            /\ pc' = "sample"
    /\ UNCHANGED <<encoding, separator, file_properties, sample_data,
                   null_analysis, numeric_stats, categorical_stats, chunk_pos,
                   descriptive_stats, result>>
    /\ UNCHANGED <<file_vars, merge_vars, report_file>>

\* a run that goes from the sample straight to the statistics pass
GetSampleDataSkipsNullPass ==
    /\ pc = "sample"
    /\ sample_data' = Take(Frame, SampleRows)
    /\ pc' = "stats"
    /\ UNCHANGED <<encoding, separator, total_rows, file_properties,
                   structure_info, null_analysis, numeric_stats,
                   categorical_stats, chunk_pos, descriptive_stats, result>>
    /\ UNCHANGED <<file_vars, merge_vars, report_file>>

\* step 3: the first rows of the frame
GetSampleData ==
    /\ pc = "sample"
    /\ sample_data' = Take(Frame, SampleRows)
    /\ pc' = "nulls"
    /\ UNCHANGED <<encoding, separator, total_rows, file_properties,
                   structure_info, null_analysis, numeric_stats,
                   categorical_stats, chunk_pos, descriptive_stats, result>>
    /\ UNCHANGED <<file_vars, merge_vars, report_file>>

\* a null pass whose error is swallowed: the run goes on without its result
AnalyzeNullValuesSwallowsError ==
    /\ pc = "nulls"
    /\ IF NullAll(Frame, chunk_size, Columns).total_rows = 0
       THEN /\ pc' = "stats"
            /\ UNCHANGED null_analysis
       ELSE /\ null_analysis' = NullAnalysisOf(Frame, chunk_size, Columns)
            /\ pc' = "stats"
    /\ UNCHANGED <<encoding, separator, total_rows, file_properties,
                   structure_info, sample_data, numeric_stats,
                   categorical_stats, chunk_pos, descriptive_stats, result>>
    /\ UNCHANGED <<file_vars, merge_vars, report_file>>

\* step 4: the null pass; count / total_rows raises ZeroDivisionError when
\* the pass saw no row
AnalyzeNullValues ==
    /\ pc = "nulls"
    /\ IF NullAll(Frame, chunk_size, Columns).total_rows = 0
       THEN /\ pc' = "error"
            /\ UNCHANGED null_analysis
       ELSE /\ null_analysis' = NullAnalysisOf(Frame, chunk_size, Columns)
            /\ pc' = "stats"
    /\ UNCHANGED <<encoding, separator, total_rows, file_properties,
                   structure_info, sample_data, numeric_stats,
                   categorical_stats, chunk_pos, descriptive_stats, result>>
    /\ UNCHANGED <<file_vars, merge_vars, report_file>>

\* a chunk loop that drops a last batch of fewer than chunk_size rows
StatsChunkDropsShortBatch ==
    /\ pc = "stats"
    /\ chunk_pos < Len(Frame)
    /\ LET chunk == Take(Drop(Frame, chunk_pos), chunk_size)
           stats == IF Len(chunk) < chunk_size
                    THEN [numeric |-> numeric_stats,
                          categorical |-> categorical_stats]
                    ELSE FoldChunk([numeric |-> numeric_stats,
                                    categorical |-> categorical_stats],
                                   chunk, Columns)
       IN  /\ numeric_stats' = stats.numeric
           /\ categorical_stats' = stats.categorical
           /\ chunk_pos' = chunk_pos + Len(chunk)
    /\ UNCHANGED <<encoding, separator, total_rows, pc, file_properties,
                   structure_info, sample_data, null_analysis,
                   descriptive_stats, result>>
    /\ UNCHANGED <<file_vars, merge_vars, report_file>>

\* step 5, one turn of the chunk loop: the next chunk_size rows are folded in
StatsChunk ==
    /\ pc = "stats"
    /\ chunk_pos < Len(Frame)
    /\ LET chunk == Take(Drop(Frame, chunk_pos), chunk_size)
           stats == FoldChunk([numeric |-> numeric_stats,
                               categorical |-> categorical_stats],
                              chunk, Columns)
       IN  /\ numeric_stats' = stats.numeric
           /\ categorical_stats' = stats.categorical
           /\ chunk_pos' = chunk_pos + Len(chunk)
    /\ UNCHANGED <<encoding, separator, total_rows, pc, file_properties,
                   structure_info, sample_data, null_analysis,
                   descriptive_stats, result>>
    /\ UNCHANGED <<file_vars, merge_vars, report_file>>

\* step 5, after the loop: the final statistics
StatsFinish ==
    /\ pc = "stats"
    /\ chunk_pos >= Len(Frame)
    /\ descriptive_stats' =
          FinalStats([numeric |-> numeric_stats,
                      categorical |-> categorical_stats], total_rows)
    /\ pc' = "report"
    /\ UNCHANGED <<encoding, separator, total_rows, file_properties,
                   structure_info, sample_data, null_analysis, numeric_stats,
                   categorical_stats, chunk_pos, result>>
    /\ UNCHANGED <<file_vars, merge_vars, report_file>>

\* generate_summary_report formats stats.get('mean', 'N/A') with :.2f for the
\* columns whose sampled dtype is numeric: a ValueError when the column's
\* entry is a categorical one
SummaryReportRaises(structure, stats) ==
    \E col \in DOMAIN structure.dtypes :
        /\ structure.dtypes[col] = "number"
        /\ col \in DOMAIN stats
        /\ "mean" \notin DOMAIN stats[col]

\* steps 6 and 7, the report file and the return: the dictionary handed to
\* the caller (charts and report text are left out)
ReturnResults ==
    /\ pc = "report"
    /\ IF SummaryReportRaises(structure_info, descriptive_stats)
       THEN /\ pc' = "error"
            /\ UNCHANGED <<result, report_file>>
       ELSE /\ result' =
                  [file_properties   |-> file_properties,
                   structure_info    |-> structure_info,
                   sample_data       |-> sample_data,
                   null_analysis     |-> null_analysis,
                   descriptive_stats |-> descriptive_stats]
            /\ report_file' = "written"
            /\ pc' = "done"
    /\ UNCHANGED <<encoding, separator, total_rows, file_properties,
                   structure_info, sample_data, null_analysis, numeric_stats,
                   categorical_stats, chunk_pos, descriptive_stats>>
    /\ UNCHANGED <<file_vars, merge_vars>>

\* what a run over the readable file header + rows returns when no step raises
RunResultOf(header, rows, size) ==
    LET properties == FilePropertiesOf(header, rows)
        columns    == ColumnsOf(header, properties.separator)
        frame      == FrameOf(rows, Len(columns))
    IN  [file_properties   |-> properties,
         structure_info    |-> StructureInfoOf(header, rows, properties.separator),
         sample_data       |-> Take(frame, SampleRows),
         null_analysis     |-> NullAnalysisOf(frame, size, columns),
         descriptive_stats |-> FinalStats(FoldAll(frame, size, columns),
                                          LinesOf(header, rows) - 1)]

\* the data lines tried: full rows, short rows and the blank line
CategoryCells == {"", "x"}

FullRows == {<<a, c>> : a \in Cells, c \in CategoryCells}

ShortRows == {<<c>> : c \in Cells \ {""}}

DataLines == FullRows \cup ShortRows \cup {<<>>}

Init ==
    /\ \/ /\ readable = FALSE
          /\ csv_header = <<>>
          /\ csv_rows = <<>>
       \/ /\ readable = TRUE
          /\ csv_header = <<>>
          /\ csv_rows = <<>>
       \/ /\ readable = TRUE
          /\ csv_header = HeaderLine
          /\ csv_rows \in SeqsUpTo(DataLines, MaxRows)
    /\ chunk_size \in 1..MaxChunk
    /\ pc = "detect"
    /\ IdleRun
    /\ IdleMerge

Next ==
    \/ DetectFileProperties
    \/ AnalyzeFileStructure
    \/ GetSampleData
    \/ AnalyzeNullValues
    \/ StatsChunk
    \/ StatsFinish
    \/ ReturnResults

Spec == Init /\ [][Next]_vars

\* files long enough for several turns of the chunk loop: full rows, short
\* rows and blank lines; the sample and the statistics, locals of the run
\* not yet bound, start as empty containers
MaxLiveRows == 4

LiveLines == {<<"1", "x">>, <<"2">>, <<>>}

InitLive ==
    /\ \/ /\ readable = FALSE
          /\ csv_header = <<>>
          /\ csv_rows = <<>>
       \/ /\ readable = TRUE
          /\ csv_header = <<>>
          /\ csv_rows = <<>>
       \/ /\ readable = TRUE
          /\ csv_header = HeaderLine
          /\ csv_rows \in SeqsUpTo(LiveLines, MaxLiveRows)
    /\ chunk_size \in 1..MaxChunk
    /\ pc = "detect"
    /\ encoding = None
    /\ separator = None
    /\ total_rows = 0
    /\ file_properties = NoValue
    /\ structure_info = NoValue
    /\ sample_data = <<>>
    /\ null_analysis = NoValue
    /\ numeric_stats = <<>>
    /\ categorical_stats = <<>>
    /\ chunk_pos = 0
    /\ descriptive_stats = <<>>
    /\ result = NoValue
    /\ report_file = "absent"
    /\ max_rows = DefaultMaxRows
    /\ IdleMerge

\* the chunk loop of step 5 seen as the move it makes: one more turn, which
\* takes it further into the frame, or the end of the loop. StatsChunk and
\* StatsFinish are the only steps of Next at "stats", their guards
\* (chunk_pos < Len(Frame), chunk_pos >= Len(Frame)) leave no state out, and
\* each of them is such a move.
StatsLoopMove ==
    /\ pc = "stats"
    /\ \/ /\ pc' = "stats"
          /\ chunk_pos' \in (chunk_pos + 1)..(chunk_pos + chunk_size)
       \/ /\ pc' = "report"
          /\ chunk_pos' = chunk_pos

\* the run is one thread that goes on as long as a step is left to take;
\* every step moves the position in the run or in the chunk loop
SpecLive ==
    /\ InitLive
    /\ [][Next]_vars
    /\ WF_<<pc, chunk_pos>>(DetectFileProperties)
    /\ WF_<<pc, chunk_pos>>(AnalyzeFileStructure)
    /\ WF_<<pc, chunk_pos>>(GetSampleData)
    /\ WF_<<pc, chunk_pos>>(AnalyzeNullValues)
    /\ WF_<<pc, chunk_pos>>(StatsLoopMove)
    /\ WF_<<pc, chunk_pos>>(ReturnResults)

(***************************************************************************)
(* SpecCalls: the public methods of EfficientDataPipeline called one by    *)
(* one, in any order, on a readable file.  read_csv with sep=None sniffs   *)
(* the delimiter from the first line (the first of csv.Sniffer's preferred *)
(* delimiters that occurs in it); with encoding=None it reads UTF-8.       *)
(***************************************************************************)
\* most data rows of a file the methods are called on
MaxCallRows == 2

preferred == <<",", TAB, ";", " ", ":">>

\* the delimiter read_csv takes when self.separator is still None
SniffedSeparator(header) ==
    preferred[CHOOSE i \in 1..Len(preferred) :
        /\ \E k \in 1..Len(header) : header[k] = preferred[i]
        /\ \A j \in 1..(i - 1) : \A k \in 1..Len(header) : header[k] # preferred[j]]

\* sep=self.separator as read_csv takes it
ReadCsvSeparator == IF separator = None THEN SniffedSeparator(csv_header) ELSE separator

CallColumns == ColumnsOf(csv_header, ReadCsvSeparator)

CallFrame == FrameOf(csv_rows, Len(CallColumns))

CallDetectFileProperties ==
    /\ pc = "calls"
    /\ LET properties == FilePropertiesOf(csv_header, csv_rows)
       IN  /\ encoding' = properties.encoding
           /\ separator' = properties.separator
           /\ file_properties' = properties
    /\ UNCHANGED <<total_rows, structure_info, sample_data, null_analysis,
                   numeric_stats, categorical_stats, descriptive_stats>>
    /\ UNCHANGED <<pc, chunk_pos, result, report_file, file_vars, merge_vars>>

CallAnalyzeFileStructure ==
    /\ pc = "calls"
    /\ total_rows' = LineCount - 1
    /\ structure_info' = StructureInfoOf(csv_header, csv_rows, ReadCsvSeparator)
    /\ UNCHANGED <<encoding, separator, file_properties, sample_data,
                   null_analysis, numeric_stats, categorical_stats,
                   descriptive_stats>>
    /\ UNCHANGED <<pc, chunk_pos, result, report_file, file_vars, merge_vars>>

CallGetSampleData ==
    /\ pc = "calls"
    /\ sample_data' = Take(CallFrame, SampleRows)
    /\ UNCHANGED <<encoding, separator, total_rows, file_properties,
                   structure_info, null_analysis, numeric_stats,
                   categorical_stats, descriptive_stats>>
    /\ UNCHANGED <<pc, chunk_pos, result, report_file, file_vars, merge_vars>>

\* the call raises ZeroDivisionError, and leaves no result, on a file
\* without data rows
CallAnalyzeNullValues ==
    /\ pc = "calls"
    /\ NullAll(CallFrame, chunk_size, CallColumns).total_rows > 0
    /\ null_analysis' = NullAnalysisOf(CallFrame, chunk_size, CallColumns)
    /\ UNCHANGED <<encoding, separator, total_rows, file_properties,
                   structure_info, sample_data, numeric_stats,
                   categorical_stats, descriptive_stats>>
    /\ UNCHANGED <<pc, chunk_pos, result, report_file, file_vars, merge_vars>>

\* the whole chunk loop and the final statistics
CallCalculateDescriptiveStatistics ==
    /\ pc = "calls"
    /\ LET stats == FoldAll(CallFrame, chunk_size, CallColumns)
       IN  /\ numeric_stats' = stats.numeric
           /\ categorical_stats' = stats.categorical
           /\ descriptive_stats' = FinalStats(stats, total_rows)
    /\ UNCHANGED <<encoding, separator, total_rows, file_properties,
                   structure_info, sample_data, null_analysis>>
    /\ UNCHANGED <<pc, chunk_pos, result, report_file, file_vars, merge_vars>>

InitCalls ==
    /\ readable = TRUE
    /\ csv_header = HeaderLine
    /\ csv_rows \in SeqsUpTo(FullRows, MaxCallRows)
    /\ chunk_size \in 1..MaxChunk
    /\ pc = "calls"
    /\ IdleRun
    /\ IdleMerge

NextCalls ==
    \/ CallDetectFileProperties
    \/ CallAnalyzeFileStructure
    \/ CallGetSampleData
    \/ CallAnalyzeNullValues
    \/ CallCalculateDescriptiveStatistics

SpecCalls == InitCalls /\ [][NextCalls]_vars

(***************************************************************************)
(* SpecText: the same run on files whose first column holds text: two      *)
(* category values, the blank cell, the whitespace cell and an NA token.   *)
(***************************************************************************)
\* most data rows of such a file
MaxTextRows == 4

TextCells == {"", " ", "NA", "X", "Y"}

TextRows == {<<a, "x">> : a \in TextCells}

InitText ==
    /\ readable = TRUE
    /\ csv_header = HeaderLine
    /\ csv_rows \in SeqsUpTo(TextRows, MaxTextRows)
    /\ chunk_size \in 1..MaxChunk
    /\ pc = "detect"
    /\ IdleRun
    /\ IdleMerge

SpecText == InitText /\ [][Next]_vars

(***************************************************************************)
(* SimpleDataAnalyzer (csv.reader, row by row).  csv.reader gives the      *)
(* cells of each line, no cell for a blank line.                           *)
(***************************************************************************)
\* not value.strip()
IsBlankCell(value) == value \in {"", " "}

\* float(value) succeeds
ParsesAsFloat(value) == value \in Numerals

\* the cells of a row that fall under a header column (i < len(columns))
CellsUnderHeader(row, columns) == Take(row, Len(columns))

\* a byte above 0x7f that is no valid UTF-8 on its own (0xE9, e-acute in
\* latin-1 and cp1252), as a character of the first line or as a cell
HighByte == "0xE9"

HasHighByte(header, rows) ==
    \/ \E i \in 1..Len(header) : header[i] = HighByte
    \/ \E i \in 1..Len(rows) : \E j \in 1..Len(rows[i]) : rows[i][j] = HighByte

\* open(path, 'r', encoding=enc) and readline() raise no UnicodeDecodeError:
\* the first read decodes a whole buffer, here the whole file
Decodes(enc, header, rows) ==
    enc \in {"latin-1", "cp1252"} \/ ~HasHighByte(header, rows)

encodings_to_try == <<"utf-8", "latin-1", "cp1252">>

RECURSIVE SimpleEncodingLoop(_, _, _, _)
\* for encoding in encodings_to_try: a candidate is taken when the file decodes
\* and the stripped first line is not empty; a UnicodeDecodeError is skipped
SimpleEncodingLoop(header, rows, i, current) ==
    IF i > Len(encodings_to_try) THEN current
    ELSE IF Decodes(encodings_to_try[i], header, rows) /\ Strip(header) # <<>>
         THEN encodings_to_try[i]
         ELSE SimpleEncodingLoop(header, rows, i + 1, current)

\* self.encoding when the loop has ended (current: its value before the loop)
SimpleEncodingOf(header, rows, current) ==
    SimpleEncodingLoop(header, rows, 1, current)

\* the dictionary detect_encoding_and_separator returns
SimplePropertiesOf(header, rows, current) ==
    LET best == DetectSeparator(Strip(header))
    IN  [encoding      |-> SimpleEncodingOf(header, rows, current),
         separator     |-> best.separator,
         columns_count |-> best.columns_count]

\* null_counts after one more row
SimpleNullRow(null_counts, row, columns) ==
    LET under == CellsUnderHeader(row, columns)
        hit   == {columns[i] : i \in {k \in 1..Len(under) : IsBlankCell(under[k])}}
    IN  [col \in DOMAIN null_counts \cup hit |->
            (IF col \in DOMAIN null_counts THEN null_counts[col] ELSE 0)
            + Cardinality({k \in 1..Len(under) :
                             columns[k] = col /\ IsBlankCell(under[k])})]

RECURSIVE SimpleNullRows(_, _, _)
SimpleNullRows(null_counts, rows, columns) ==
    IF rows = <<>> THEN null_counts
    ELSE SimpleNullRows(SimpleNullRow(null_counts, Head(rows), columns),
                        Tail(rows), columns)

\* the dictionary analyze_null_values returns
SimpleNullAnalysisOf(rows, columns) ==
    LET null_counts == SimpleNullRows(<<>>, rows, columns)
    IN  [null_counts      |-> null_counts,
         null_percentages |->
            [col \in DOMAIN null_counts |->
                Quotient(null_counts[col] * 100, Len(rows))],
         total_rows       |-> Len(rows)]

\* stats[col] as initialised
SimpleEmptyStats ==
    [numeric_values |-> <<>>, string_values |-> <<>>, total_count |-> 0]

\* stats[col] after one more cell of the column
SimpleCell(col_stats, value) ==
    [numeric_values |->
        IF ParsesAsFloat(value)
        THEN Append(col_stats.numeric_values, ParseNumber(value))
        ELSE col_stats.numeric_values,
     string_values |->
        IF ~ParsesAsFloat(value) /\ ~IsBlankCell(value)
        THEN DictAdd(col_stats.string_values, value, 1)
        ELSE col_stats.string_values,
     total_count |-> col_stats.total_count + 1]

\* stats after one more row
SimpleStatsRow(stats, row, columns) ==
    LET under == CellsUnderHeader(row, columns)
    IN  [col \in DOMAIN stats |->
            LET j == ColumnIndex(columns, col)
            IN  IF j <= Len(under) THEN SimpleCell(stats[col], under[j])
                ELSE stats[col]]

RECURSIVE SimpleStatsRows(_, _, _)
SimpleStatsRows(stats, rows, columns) ==
    IF rows = <<>> THEN stats
    ELSE SimpleStatsRows(SimpleStatsRow(stats, Head(rows), columns),
                         Tail(rows), columns)

\* stats when the row loop of calculate_basic_statistics has ended
SimpleStatsOf(rows, columns) ==
    SimpleStatsRows([col \in {columns[j] : j \in 1..Len(columns)} |->
                        SimpleEmptyStats],
                    rows, columns)

\* final_stats of calculate_basic_statistics
SimpleFinalStats(stats) ==
    [col \in DOMAIN stats |->
        LET numeric_vals == stats[col].numeric_values
            string_vals  == stats[col].string_values
        IN  IF numeric_vals # <<>>
            THEN [type       |-> "numeric",
                  count      |-> Len(numeric_vals),
                  mean       |-> Quotient(SumOf(numeric_vals), Len(numeric_vals)),
                  min        |-> MinOf(numeric_vals),
                  max        |-> MaxOf(numeric_vals),
                  null_count |-> stats[col].total_count - Len(numeric_vals)]
            ELSE [type          |-> "categorical",
                  unique_values |-> Len(string_vals),
                  top_5_values  |-> Take(SortByCountDesc(string_vals), TopK),
                  null_count    |-> stats[col].total_count - SumCounts(string_vals)]]

simple_unused == <<chunk_size, readable, max_rows, total_rows,
                   categorical_stats, chunk_pos>>

\* step 1: detect_encoding_and_separator; the open() of the loop raises on a
\* missing file, the readline() of the separator detection raises when the
\* encoding the loop left does not decode the file
SimpleDetect ==
    /\ pc = "simple_detect"
    /\ IF ~readable
       THEN /\ pc' = "error"
            /\ UNCHANGED <<encoding, separator, file_properties>>
       ELSE LET properties == SimplePropertiesOf(csv_header, csv_rows, encoding)
            IN  IF ~Decodes(properties.encoding, csv_header, csv_rows)
                THEN /\ encoding' = properties.encoding
                     /\ pc' = "error"
                     /\ UNCHANGED <<separator, file_properties>>
                ELSE /\ encoding' = properties.encoding
                     /\ separator' = properties.separator
                     /\ file_properties' = properties
                     /\ pc' = "simple_structure"
    /\ UNCHANGED <<structure_info, sample_data, null_analysis, numeric_stats,
                   descriptive_stats, result>>
    /\ UNCHANGED <<csv_header, csv_rows, simple_unused, merge_vars, report_file>>

\* step 2: count_rows_and_columns (an empty file has no header: StopIteration
\* is caught and nothing is counted)
SimpleCountRows ==
    /\ pc = "simple_structure"
    /\ structure_info' =
          IF FileIsEmpty
          THEN [total_rows |-> 0, columns |-> <<>>]
          ELSE [total_rows |-> Len(csv_rows), columns |-> Columns]
    /\ pc' = "simple_sample"
    /\ UNCHANGED <<encoding, separator, file_properties, sample_data,
                   null_analysis, numeric_stats, descriptive_stats, result>>
    /\ UNCHANGED <<csv_header, csv_rows, simple_unused, merge_vars, report_file>>

\* step 3: get_sample_data (next(reader) raises StopIteration on an empty file)
SimpleGetSample ==
    /\ pc = "simple_sample"
    /\ IF FileIsEmpty
       THEN /\ pc' = "error"
            /\ UNCHANGED sample_data
       ELSE /\ sample_data' = Take(csv_rows, SampleRows)
            /\ pc' = "simple_nulls"
    /\ UNCHANGED <<encoding, separator, file_properties, structure_info,
                   null_analysis, numeric_stats, descriptive_stats, result>>
    /\ UNCHANGED <<csv_header, csv_rows, simple_unused, merge_vars, report_file>>

\* step 4: analyze_null_values
SimpleAnalyzeNulls ==
    /\ pc = "simple_nulls"
    /\ null_analysis' = SimpleNullAnalysisOf(csv_rows, Columns)
    /\ pc' = "simple_stats"
    /\ UNCHANGED <<encoding, separator, file_properties, structure_info,
                   sample_data, numeric_stats, descriptive_stats, result>>
    /\ UNCHANGED <<csv_header, csv_rows, simple_unused, merge_vars, report_file>>

\* step 5: calculate_basic_statistics (numeric_stats keeps its stats)
SimpleCalculateStatistics ==
    /\ pc = "simple_stats"
    /\ numeric_stats' = SimpleStatsOf(csv_rows, Columns)
    /\ descriptive_stats' = SimpleFinalStats(SimpleStatsOf(csv_rows, Columns))
    /\ pc' = "simple_report"
    /\ UNCHANGED <<encoding, separator, file_properties, structure_info,
                   sample_data, null_analysis, result>>
    /\ UNCHANGED <<csv_header, csv_rows, simple_unused, merge_vars, report_file>>

\* step 6 and the return of run_analysis (report text left out)
SimpleReturn ==
    /\ pc = "simple_report"
    /\ result' =
          [file_properties   |-> file_properties,
           structure_info    |-> structure_info,
           sample_data       |-> sample_data,
           null_analysis     |-> null_analysis,
           descriptive_stats |-> descriptive_stats]
    /\ report_file' = "written"
    /\ pc' = "done"
    /\ UNCHANGED <<encoding, separator, file_properties, structure_info,
                   sample_data, null_analysis, numeric_stats, descriptive_stats>>
    /\ UNCHANGED <<csv_header, csv_rows, simple_unused, merge_vars>>

\* rows with a field more than the header has columns
LongRows == {<<a, "x", "x">> : a \in Cells}

InitSimple ==
    /\ \/ /\ csv_header = <<>>
          /\ csv_rows = <<>>
       \/ /\ csv_header = HeaderLine
          /\ csv_rows \in SeqsUpTo(DataLines \cup LongRows, MaxRows)
    /\ chunk_size = 1
    /\ readable = TRUE
    /\ pc = "simple_detect"
    /\ encoding = "utf-8"
    /\ separator = ","
    /\ total_rows = 0
    /\ file_properties = NoValue
    /\ structure_info = NoValue
    /\ sample_data = NoValue
    /\ null_analysis = NoValue
    /\ numeric_stats = <<>>
    /\ categorical_stats = <<>>
    /\ chunk_pos = 0
    /\ descriptive_stats = NoValue
    /\ result = NoValue
    /\ report_file = "absent"
    /\ max_rows = DefaultMaxRows
    /\ IdleMerge

NextSimple ==
    \/ SimpleDetect
    \/ SimpleCountRows
    \/ SimpleGetSample
    \/ SimpleAnalyzeNulls
    \/ SimpleCalculateStatistics
    \/ SimpleReturn

SpecSimple == InitSimple /\ [][NextSimple]_vars

(***************************************************************************)
(* QuickDataAnalyzer.analyze_sample: the first max_rows rows of the file.  *)
(***************************************************************************)
\* the column names csv.reader takes from the header line
QuickColumns == Split(csv_header, separator)

RECURSIVE QuickRowsFrom(_, _, _)
\* for i, row in enumerate(reader): if i >= self.max_rows: break
QuickRowsFrom(rows, i, limit) ==
    IF rows = <<>> \/ i >= limit THEN <<>>
    ELSE <<Head(rows)>> \o QuickRowsFrom(Tail(rows), i + 1, limit)

\* the rows the loop of a pass gets to
QuickRows(rows, limit) == QuickRowsFrom(rows, 0, limit)

\* the dictionary _analyze_nulls returns (null_counts has an entry only for
\* a column with a blank cell, so the percentages never divide by zero)
QuickNullAnalysisOf(rows, columns, limit) ==
    LET read        == QuickRows(rows, limit)
        null_counts == SimpleNullRows(<<>>, read, columns)
    IN  [null_counts      |-> null_counts,
         null_percentages |->
            [col \in DOMAIN null_counts |->
                Quotient(null_counts[col] * 100, Len(read))],
         total_rows       |-> Len(read)]

RECURSIVE QuickStatsCells(_, _, _, _)
\* for j, value in enumerate(row): if j < len(columns): stats[columns[j]]
\* takes the cell (two columns of one name share their entry)
QuickStatsCells(stats, row, columns, j) ==
    IF j > Len(row) THEN stats
    ELSE IF j > Len(columns) THEN QuickStatsCells(stats, row, columns, j + 1)
    ELSE QuickStatsCells([stats EXCEPT ![columns[j]] = SimpleCell(@, row[j])],
                         row, columns, j + 1)

RECURSIVE QuickStatsRows(_, _, _)
QuickStatsRows(stats, rows, columns) ==
    IF rows = <<>> THEN stats
    ELSE QuickStatsRows(QuickStatsCells(stats, Head(rows), columns, 1),
                        Tail(rows), columns)

\* stats when the row loop of _calculate_stats has ended
QuickStatsOf(rows, columns, limit) ==
    QuickStatsRows([col \in {columns[j] : j \in 1..Len(columns)} |->
                       SimpleEmptyStats],
                   QuickRows(rows, limit), columns)

\* final_stats of _calculate_stats
QuickFinalStats(stats) ==
    [col \in DOMAIN stats |->
        LET numeric_vals == stats[col].numeric_values
            string_vals  == stats[col].string_values
        IN  IF numeric_vals # <<>>
            THEN [type       |-> "numeric",
                  count      |-> Len(numeric_vals),
                  mean       |-> Quotient(SumOf(numeric_vals), Len(numeric_vals)),
                  min        |-> MinOf(numeric_vals),
                  max        |-> MaxOf(numeric_vals),
                  null_count |-> stats[col].total_count - Len(numeric_vals)]
            ELSE [type          |-> "categorical",
                  unique_values |-> Len(string_vals),
                  top_5_values  |-> Take(SortByCountDesc(string_vals), TopK),
                  null_count    |-> stats[col].total_count - SumCounts(string_vals)]]

quick_unused == <<chunk_size, total_rows, file_properties, categorical_stats,
                  chunk_pos>>

quick_file == <<csv_header, csv_rows, readable, max_rows>>

\* step 1: _detect_properties; open() raises on a missing file, the
\* readline() of the separator detection raises when the encoding the loop
\* left does not decode the file
QuickDetectProperties ==
    /\ pc = "quick_detect"
    /\ IF ~readable
       THEN /\ pc' = "error"
            /\ UNCHANGED <<encoding, separator>>
       ELSE LET detected == SimpleEncodingOf(csv_header, csv_rows, encoding)
            IN  IF ~Decodes(detected, csv_header, csv_rows)
                THEN /\ encoding' = detected
                     /\ pc' = "error"
                     /\ UNCHANGED separator
                ELSE /\ encoding' = detected
                     /\ separator' = DetectSeparator(Strip(csv_header)).separator
                     /\ pc' = "quick_structure"
    /\ UNCHANGED <<structure_info, sample_data, null_analysis, numeric_stats,
                   descriptive_stats, result>>
    /\ UNCHANGED <<quick_file, quick_unused, merge_vars, report_file>>

\* step 2: _analyze_structure counts the lines, less one for the header, and
\* reads the header; next(reader) raises StopIteration on an empty file
QuickAnalyzeStructure ==
    /\ pc = "quick_structure"
    /\ IF FileIsEmpty
       THEN /\ pc' = "error"
            /\ UNCHANGED structure_info
       ELSE /\ structure_info' = [total_rows |-> LineCount - 1,
                                  columns    |-> QuickColumns]
            /\ pc' = "quick_sample"
    /\ UNCHANGED <<encoding, separator, sample_data, null_analysis,
                   numeric_stats, descriptive_stats, result>>
    /\ UNCHANGED <<quick_file, quick_unused, merge_vars, report_file>>

\* step 3: _get_sample
QuickGetSample ==
    /\ pc = "quick_sample"
    /\ sample_data' = QuickRows(csv_rows, max_rows)
    /\ pc' = "quick_nulls"
    /\ UNCHANGED <<encoding, separator, structure_info, null_analysis,
                   numeric_stats, descriptive_stats, result>>
    /\ UNCHANGED <<quick_file, quick_unused, merge_vars, report_file>>

\* step 4: _analyze_nulls
QuickAnalyzeNulls ==
    /\ pc = "quick_nulls"
    /\ null_analysis' = QuickNullAnalysisOf(csv_rows, QuickColumns, max_rows)
    /\ pc' = "quick_stats"
    /\ UNCHANGED <<encoding, separator, structure_info, sample_data,
                   numeric_stats, descriptive_stats, result>>
    /\ UNCHANGED <<quick_file, quick_unused, merge_vars, report_file>>

\* step 5: _calculate_stats (numeric_stats keeps its stats)
QuickCalculateStats ==
    /\ pc = "quick_stats"
    /\ numeric_stats' = QuickStatsOf(csv_rows, QuickColumns, max_rows)
    /\ descriptive_stats' =
          QuickFinalStats(QuickStatsOf(csv_rows, QuickColumns, max_rows))
    /\ pc' = "quick_report"
    /\ UNCHANGED <<encoding, separator, structure_info, sample_data,
                   null_analysis, result>>
    /\ UNCHANGED <<quick_file, quick_unused, merge_vars, report_file>>

\* the report, its file and the return of analyze_sample (report text left out)
QuickReturn ==
    /\ pc = "quick_report"
    /\ result' =
          [structure_info |-> structure_info,
           sample_data    |-> sample_data,
           null_analysis  |-> null_analysis,
           stats          |-> descriptive_stats]
    /\ report_file' = "written"
    /\ pc' = "done"
    /\ UNCHANGED <<encoding, separator, structure_info, sample_data,
                   null_analysis, numeric_stats, descriptive_stats>>
    /\ UNCHANGED <<quick_file, quick_unused, merge_vars>>

\* files of up to MaxQuickRows data lines under the header a,c or a,a, and
\* samples of up to MaxSample rows
MaxQuickRows == 3

MaxSample == 2

\* the header line  a,a
DuplicateHeader == <<"a", ",", "a">>

QuickLines == {<<"1", "x">>, <<"", "2">>, <<"x">>, <<>>}

InitQuick ==
    /\ \/ /\ csv_header = <<>>
          /\ csv_rows = <<>>
       \/ /\ csv_header \in {HeaderLine, DuplicateHeader}
          /\ csv_rows \in SeqsUpTo(QuickLines, MaxQuickRows)
    /\ max_rows \in 0..MaxSample
    /\ chunk_size = 1
    /\ readable = TRUE
    /\ pc = "quick_detect"
    /\ encoding = "utf-8"
    /\ separator = ","
    /\ total_rows = 0
    /\ file_properties = NoValue
    /\ structure_info = NoValue
    /\ sample_data = NoValue
    /\ null_analysis = NoValue
    /\ numeric_stats = <<>>
    /\ categorical_stats = <<>>
    /\ chunk_pos = 0
    /\ descriptive_stats = NoValue
    /\ result = NoValue
    /\ report_file = "absent"
    /\ IdleMerge

NextQuick ==
    \/ QuickDetectProperties
    \/ QuickAnalyzeStructure
    \/ QuickGetSample
    \/ QuickAnalyzeNulls
    \/ QuickCalculateStats
    \/ QuickReturn

SpecQuick == InitQuick /\ [][NextQuick]_vars

(***************************************************************************)
(* SpecSniff: the detector on every first line up to MaxLineLen.           *)
(***************************************************************************)
InitSniff ==
    /\ csv_header \in FirstLines
    /\ csv_rows = <<>>
    /\ chunk_size = 1
    /\ readable = TRUE
    /\ pc = "detect"
    /\ IdleRun
    /\ IdleMerge

NextSniff == DetectFileProperties

SpecSniff == InitSniff /\ [][NextSniff]_vars

(***************************************************************************)
(* SpecScenario: both analyzers on the worked example, the file            *)
(*     id,amount,category / 1,10.5,X / 2,,Y / 3,20.0,                      *)
(* and on the files made of up to MaxScenarioRows of its rows.             *)
(***************************************************************************)
\* most data rows of such a file
MaxScenarioRows == 3

ScenarioHeader ==
    <<"i", "d", ",", "a", "m", "o", "u", "n", "t", ",", "c", "a", "t", "e", "g", "o", "r", "y">>

ScenarioRows == <<<<"1", "10.5", "X">>, <<"2", "", "Y">>, <<"3", "20.0", "">>>>

id == <<"i", "d">>

amount == <<"a", "m", "o", "u", "n", "t">>

category == <<"c", "a", "t", "e", "g", "o", "r", "y">>

InitScenario ==
    /\ readable = TRUE
    /\ csv_header = ScenarioHeader
    /\ csv_rows \in SeqsUpTo({ScenarioRows[i] : i \in 1..Len(ScenarioRows)},
                              MaxScenarioRows)
    /\ chunk_size \in 1..MaxChunk
    /\ \/ /\ pc = "detect"
          /\ encoding = None
          /\ separator = None
       \/ /\ pc = "simple_detect"
          /\ encoding = "utf-8"
          /\ separator = ","
    /\ total_rows = 0
    /\ file_properties = NoValue
    /\ structure_info = NoValue
    /\ sample_data = NoValue
    /\ null_analysis = NoValue
    /\ numeric_stats = <<>>
    /\ categorical_stats = <<>>
    /\ chunk_pos = 0
    /\ descriptive_stats = NoValue
    /\ result = NoValue
    /\ report_file = "absent"
    /\ max_rows = DefaultMaxRows
    /\ IdleMerge

NextScenario ==
    \/ Next
    \/ NextSimple

SpecScenario == InitScenario /\ [][NextScenario]_vars

(***************************************************************************)
(* SpecEncoding: both detectors on files with a blank first line and with  *)
(* bytes that are no UTF-8.  chardet's guess on such bytes is a statistic  *)
(* of the sample, so the pandas pipeline is run on the ASCII files only.   *)
(***************************************************************************)
EncodingChars == {"a", ",", " ", HighByte}

EncodingRows == {<<>>, <<<<"x">>>>, <<<<HighByte>>>>}

InitEncoding ==
    /\ csv_header \in SeqsUpTo(EncodingChars, MaxLineLen)
    /\ csv_rows \in EncodingRows
    /\ chunk_size = 1
    /\ readable = TRUE
    /\ \/ /\ pc = "simple_detect"
          /\ encoding = "utf-8"
          /\ separator = ","
       \/ /\ pc = "detect"
          /\ ~HasHighByte(csv_header, csv_rows)
          /\ encoding = None
          /\ separator = None
    /\ total_rows = 0
    /\ file_properties = NoValue
    /\ structure_info = NoValue
    /\ sample_data = NoValue
    /\ null_analysis = NoValue
    /\ numeric_stats = <<>>
    /\ categorical_stats = <<>>
    /\ chunk_pos = 0
    /\ descriptive_stats = NoValue
    /\ result = NoValue
    /\ report_file = "absent"
    /\ max_rows = DefaultMaxRows
    /\ IdleMerge

NextEncoding ==
    \/ SimpleDetect
    \/ DetectFileProperties

SpecEncoding == InitEncoding /\ [][NextEncoding]_vars

(***************************************************************************)
(* SpecMerge: the fold step as a merge of two accumulators.                *)
(***************************************************************************)
\* accumulators a pass can hold: one chunk's cells folded into a fresh one
NumericOperands ==
    {MergeNumeric(EmptyNumeric, ChunkNumeric(cells)) :
        cells \in SeqsUpTo(NumericCells \cup {""}, MaxOperand)}

CategoricalOperands ==
    {MergeCategorical(<<>>, ValueCounts(cells)) :
        cells \in SeqsUpTo({"", "X", "Y"}, MaxCategoricalOperand)}

InitMerge ==
    /\ csv_header = HeaderLine
    /\ csv_rows = <<>>
    /\ chunk_size = 1
    /\ readable = TRUE
    /\ pc = "merge"
    /\ IdleRun
    /\ merged = NoValue
    /\ \/ /\ acc_a \in NumericOperands
          /\ acc_b \in NumericOperands
          /\ acc_c \in NumericOperands
          /\ cat_a = <<>> /\ cat_b = <<>> /\ cat_c = <<>>
       \/ /\ acc_a = EmptyNumeric /\ acc_b = EmptyNumeric /\ acc_c = EmptyNumeric
          /\ cat_a \in CategoricalOperands
          /\ cat_b \in CategoricalOperands
          /\ cat_c \in CategoricalOperands

MergeAccumulators ==
    /\ pc = "merge"
    /\ merged' =
          [ab       |-> MergeNumeric(acc_a, acc_b),
           ba       |-> MergeNumeric(acc_b, acc_a),
           ab_c     |-> MergeNumeric(MergeNumeric(acc_a, acc_b), acc_c),
           a_bc     |-> MergeNumeric(acc_a, MergeNumeric(acc_b, acc_c)),
           cat_ab   |-> MergeCategorical(cat_a, cat_b),
           cat_ba   |-> MergeCategorical(cat_b, cat_a),
           cat_ab_c |-> MergeCategorical(MergeCategorical(cat_a, cat_b), cat_c),
           cat_a_bc |-> MergeCategorical(cat_a, MergeCategorical(cat_b, cat_c))]
    /\ pc' = "merged"
    /\ UNCHANGED <<csv_header, csv_rows, chunk_size, readable, encoding,
                   separator, total_rows, file_properties, structure_info,
                   sample_data, null_analysis, numeric_stats,
                   categorical_stats, chunk_pos, descriptive_stats, result,
                   report_file, max_rows,
                   acc_a, acc_b, acc_c, cat_a, cat_b, cat_c>>

NextMerge == MergeAccumulators

SpecMerge == InitMerge /\ [][NextMerge]_vars

(***************************************************************************)
(* Claims about the statistics pass and the run (Spec).                    *)
(***************************************************************************)
\* the step-by-step run returns what the run as one function returns
RunMatchesFunction ==
    pc = "done" => result = RunResultOf(csv_header, csv_rows, chunk_size)

StatsReturned == pc \in {"report", "done"}

\* every data line has the header's field count
AllRowsWellFormed ==
    \A i \in 1..Len(csv_rows) : ~IsMalformed(csv_rows[i], Len(Columns))

\* C1: the statistics returned are those every other chunk size returns for
\* the same file (the sample list is no part of what is returned).
C1_ChunkSizeInvariance ==
    (StatsReturned /\ AllRowsWellFormed) =>
        \A size \in 1..MaxChunk :
            descriptive_stats =
                FinalStats(FoldAll(Frame, size, Columns), total_rows)

\* count, sum, min and max of a column's numeric accumulator (the fresh
\* accumulator when the column has none)
NumericPart(stats, col) ==
    LET acc == IF col \in DOMAIN stats.numeric
               THEN stats.numeric[col] ELSE EmptyNumeric
    IN  [sum |-> acc.sum, count |-> acc.count, min |-> acc.min, max |-> acc.max]

\* the frequency map of a column (the empty map when the column has none)
CategoricalPart(stats, col) ==
    IF col \in DOMAIN stats.categorical
    THEN AsMap(stats.categorical[col]) ELSE AsMap(<<>>)

SameAccumulators(s, t, columns) ==
    \A j \in 1..Len(columns) :
        /\ NumericPart(s, columns[j]) = NumericPart(t, columns[j])
        /\ CategoricalPart(s, columns[j]) = CategoricalPart(t, columns[j])

\* C2: for every cut of the rows into two non-empty contiguous ranges, folding
\* the second range into the accumulators of the first gives, column by
\* column, the accumulators of one fold over all rows.
C2_SplitAggregation ==
    (pc = "stats" /\ AllRowsWellFormed) =>
        \A k \in 1..(Len(Frame) - 1) :
            SameAccumulators(
                FoldChunk(FoldChunk(NoStats, Take(Frame, k), Columns),
                          Drop(Frame, k), Columns),
                FoldChunk(NoStats, Frame, Columns),
                Columns)

\* C5: when every row has the header's field count, each reported column's
\* null_count plus its numeric count plus its categorical counts is total_rows.
C5_NullAccounting ==
    (StatsReturned /\ AllRowsWellFormed) =>
        \A col \in DOMAIN descriptive_stats :
            descriptive_stats[col].null_count
              + NumericPart([numeric |-> numeric_stats,
                             categorical |-> categorical_stats], col).count
              + SumCounts(IF col \in DOMAIN categorical_stats
                          THEN categorical_stats[col] ELSE <<>>)
            = total_rows

RECURSIVE MalformedRows(_, _)
\* the rows whose field count differs from the header's
MalformedRows(rows, ncols) ==
    IF rows = <<>> THEN 0
    ELSE (IF IsMalformed(Head(rows), ncols) THEN 1 ELSE 0)
         + MalformedRows(Tail(rows), ncols)

\* the same file with every short row written out in full (empty cells added)
WrittenOutInFull(rows, ncols) ==
    [i \in 1..Len(rows) |->
        IF IsBlankLine(rows[i]) THEN rows[i] ELSE PadRow(rows[i], ncols)]

\* C7: the number of malformed rows can be read from the returned result: a
\* file with a different number of malformed rows returns a different result.
C7_MalformedRowsReadable ==
    pc = "done" =>
        LET other == WrittenOutInFull(csv_rows, Len(Columns))
        IN  MalformedRows(other, Len(Columns)) # MalformedRows(csv_rows, Len(Columns))
            => RunResultOf(csv_header, other, chunk_size) # result

\* C8: on an empty file detection returns nothing and no later step runs: the
\* run is still at detection or has failed there, with no row counted.
C8_EmptyFileFailsInDetection ==
    FileIsEmpty =>
        /\ pc \in {"detect", "error"}
        /\ file_properties = NoValue
        /\ total_rows = 0

(***************************************************************************)
(* Claims about malformed rows in the row-by-row analyzer (SpecSimple).    *)
(***************************************************************************)
RECURSIVE WellFormedRows(_, _)
\* the rows that have the header's field count, in file order
WellFormedRows(rows, ncols) ==
    IF rows = <<>> THEN <<>>
    ELSE IF IsMalformed(Head(rows), ncols) THEN WellFormedRows(Tail(rows), ncols)
    ELSE <<Head(rows)>> \o WellFormedRows(Tail(rows), ncols)

\* C6: a row whose field count differs from the header's is counted in
\* total_rows and adds to no column's null count or statistics: both passes
\* end with the accumulators of the well-formed rows alone.
C6_MalformedRowsSkipped ==
    pc \in {"simple_report", "done"} =>
        /\ null_analysis.total_rows = Len(csv_rows)
        /\ null_analysis.null_counts =
              SimpleNullRows(<<>>, WellFormedRows(csv_rows, Len(Columns)), Columns)
        /\ numeric_stats =
              SimpleStatsOf(WellFormedRows(csv_rows, Len(Columns)), Columns)

(***************************************************************************)
(* Claims about the accumulator merge (SpecMerge).                         *)
(***************************************************************************)
\* C3 as stated: merge(a,b) = merge(b,a) for numeric accumulators, reservoirs
\* included, and for categorical accumulators.
C3_MergeCommutativeWithReservoir ==
    pc = "merged" =>
        /\ merged.ab = merged.ba
        /\ AsMap(merged.cat_ab) = AsMap(merged.cat_ba)

\* C3 amended: merge(a,b) and merge(b,a) agree on count, sum, min and max of a
\* numeric accumulator and on every key's count of a categorical accumulator;
\* the reservoirs are concatenated in operand order and may differ.
C3_MergeCommutativeOnAggregates ==
    pc = "merged" =>
        /\ merged.ab.sum = merged.ba.sum
        /\ merged.ab.count = merged.ba.count
        /\ merged.ab.min = merged.ba.min
        /\ merged.ab.max = merged.ba.max
        /\ AsMap(merged.cat_ab) = AsMap(merged.cat_ba)

\* two non-empty operands with different minima, merged both ways, whose
\* reservoirs come out in different orders
C3_Witness ==
    /\ pc = "merged"
    /\ acc_a.count > 0 /\ acc_b.count > 0
    /\ acc_a.min # acc_b.min
    /\ merged.ab.values # merged.ba.values

\* C4: merge(merge(a,b),c) = merge(a,merge(b,c)) for numeric accumulators,
\* reservoirs included, and for categorical accumulators.
C4_MergeAssociative ==
    pc = "merged" =>
        /\ merged.ab_c = merged.a_bc
        /\ AsMap(merged.cat_ab_c) = AsMap(merged.cat_a_bc)

(***************************************************************************)
(* Claims about separator detection (SpecSniff).                           *)
(***************************************************************************)
\* the fields a line falls into when cut at every occurrence of sep
FieldCount(line, sep) == Cardinality({i \in 1..Len(line) : line[i] = sep}) + 1

MaxFieldCount(line) ==
    CHOOSE n \in 1..(Len(line) + 1) :
        /\ \E i \in 1..Len(separators) : FieldCount(line, separators[i]) = n
        /\ \A i \in 1..Len(separators) : FieldCount(line, separators[i]) <= n

\* the earliest candidate that reaches the maximum
EarliestBest(line) ==
    separators[CHOOSE i \in 1..Len(separators) :
        /\ FieldCount(line, separators[i]) = MaxFieldCount(line)
        /\ \A j \in 1..(i - 1) :
              FieldCount(line, separators[j]) < MaxFieldCount(line)]

\* C9: for every first line of a file the detector returns the earliest
\* candidate with the most fields on that line, and that number of fields.
C9_SeparatorIsEarliestMaximum ==
    pc = "structure" =>
        /\ file_properties.separator = EarliestBest(csv_header)
        /\ file_properties.columns_count = MaxFieldCount(csv_header)

\* C10 as stated: on a,b;c,d,e comma gives 3 fields, semicolon 2, comma is
\* selected and the column count reported is 3.
C10_ExampleLineThreeColumns ==
    (pc = "structure" /\ csv_header = ExampleLine) =>
        /\ Len(Split(Strip(csv_header), ",")) = 3
        /\ Len(Split(Strip(csv_header), ";")) = 2
        /\ file_properties.separator = ","
        /\ file_properties.columns_count = 3

\* C10 amended: on a,b;c,d,e comma gives 4 fields (a | b;c | d | e), semicolon
\* 2, comma is selected and the column count reported is 4.
C10_ExampleLineFourColumns ==
    (pc = "structure" /\ csv_header = ExampleLine) =>
        /\ Len(Split(Strip(csv_header), ",")) = 4
        /\ Len(Split(Strip(csv_header), ";")) = 2
        /\ file_properties.separator = ","
        /\ file_properties.columns_count = 4

\* the detector has run on the example line
C10_Witness == pc = "structure" /\ csv_header = ExampleLine

(***************************************************************************)
(* Claims about encoding detection (SpecEncoding).                         *)
(***************************************************************************)
\* some candidate of the list decodes the file
SomeCandidateDecodes(header, rows) ==
    \E i \in 1..Len(encodings_to_try) : Decodes(encodings_to_try[i], header, rows)

\* the first candidate of the list that decodes the file
FirstDecodingCandidate(header, rows) ==
    encodings_to_try[CHOOSE i \in 1..Len(encodings_to_try) :
        /\ Decodes(encodings_to_try[i], header, rows)
        /\ \A j \in 1..(i - 1) : ~Decodes(encodings_to_try[j], header, rows)]

\* C11: once detection has run, the fallback has selected the first candidate
\* of its list that decodes the file; on a file of ASCII bytes detection has
\* not raised; and the result reports a confidence.
C11_EncodingFallback ==
    /\ pc \in {"simple_structure", "error"} =>
          /\ SomeCandidateDecodes(csv_header, csv_rows) =>
                encoding = FirstDecodingCandidate(csv_header, csv_rows)
          /\ ~HasHighByte(csv_header, csv_rows) => pc # "error"
          /\ "confidence" \in DOMAIN file_properties
    /\ pc = "structure" =>
          /\ ~FileIsEmpty => encoding # None
          /\ "confidence" \in DOMAIN file_properties

(***************************************************************************)
(* Claims about the sample list and the retained state.                    *)
(***************************************************************************)
\* C12 (Spec): in every state of the statistics pass and after it, the sample
\* list of every numeric column holds at most cap values.
C12_ReservoirWithinCap ==
    \A col \in DOMAIN numeric_stats :
        Len(numeric_stats[col].values) <= SampleCap

RECURSIVE SimpleColumnCells(_, _)
\* the cells the rows hold under header column j, in file order
SimpleColumnCells(rows, j) ==
    IF rows = <<>> THEN <<>>
    ELSE (IF j <= Len(Head(rows)) THEN <<Head(rows)[j]>> ELSE <<>>)
         \o SimpleColumnCells(Tail(rows), j)

\* the distinct values among the cells that are neither blank nor numbers
DistinctStrings(cells) ==
    {cells[i] : i \in {k \in 1..Len(cells) :
                          ~IsBlankCell(cells[k]) /\ ~ParsesAsFloat(cells[k])}}

\* C13 (SpecSimple): when the row loop has ended, every column retains at most
\* cap numeric values and one frequency entry per distinct categorical value,
\* whatever the number of rows.
C13_RetainedStateBounded ==
    pc \in {"simple_report", "done"} =>
        \A j \in 1..Len(Columns) :
            /\ Len(numeric_stats[Columns[j]].numeric_values) <= SampleCap
            /\ Len(numeric_stats[Columns[j]].string_values)
                  <= Cardinality(DistinctStrings(SimpleColumnCells(csv_rows, j)))

(***************************************************************************)
(* Claims about the classification of columns.                             *)
(***************************************************************************)
\* the cells that are not blank
NonBlank(cells) == {k \in 1..Len(cells) : ~IsBlankCell(cells[k])}

\* C14 (SpecSimple): a column is reported numeric only if each of its
\* non-empty cells parses as a number; a column with a non-empty cell that
\* does not parse is reported categorical, with every distinct non-empty value
\* counted and only the empty cells counted as null.
C14_NumericOnlyIfAllParse ==
    pc \in {"simple_report", "done"} =>
        \A j \in 1..Len(Columns) :
            LET cells  == SimpleColumnCells(csv_rows, j)
                report == descriptive_stats[Columns[j]]
            IN  /\ report.type = "numeric" =>
                      \A k \in NonBlank(cells) : ParsesAsFloat(cells[k])
                /\ (\E k \in NonBlank(cells) : ~ParsesAsFloat(cells[k])) =>
                      /\ report.type = "categorical"
                      /\ report.unique_values =
                            Cardinality({cells[k] : k \in NonBlank(cells)})
                      /\ report.null_count =
                            Len(cells) - Cardinality(NonBlank(cells))

\* C15 (Spec): a column that ends the pass as a numeric column with count 0
\* is present in the final statistics, its mean the undefined marker.
C15_ZeroCountColumnReported ==
    StatsReturned =>
        \A col \in DOMAIN numeric_stats :
            (numeric_stats[col].count = 0 /\ col \notin DOMAIN categorical_stats) =>
                /\ col \in DOMAIN descriptive_stats
                /\ "mean" \in DOMAIN descriptive_stats[col]
                /\ descriptive_stats[col].mean = NaN

(***************************************************************************)
(* Claims about the top values and the null counts (SpecText).             *)
(***************************************************************************)
\* the row in which a value is first seen in a column
FirstSeen(cells, value) ==
    CHOOSE i \in 1..Len(cells) :
        /\ cells[i] = value
        /\ \A k \in 1..(i - 1) : cells[k] # value

\* C16: every top_5 list has at most 5 entries, counts descending, no omitted
\* key with a larger count than a listed one, and keys of equal count in the
\* order in which they are first seen in the file.
C16_TopValuesOrdered ==
    StatsReturned =>
        \A j \in 1..Len(Columns) :
            Columns[j] \in DOMAIN categorical_stats =>
                LET top   == descriptive_stats[Columns[j]].top_5_values
                    all   == categorical_stats[Columns[j]]
                    cells == ColumnCells(Frame, j)
                IN  /\ Len(top) <= TopK
                    /\ \A i, k \in 1..Len(top) :
                          i < k => top[i].count >= top[k].count
                    /\ \A i \in 1..Len(top) : \A n \in 1..Len(all) :
                          (\A k \in 1..Len(top) : top[k].value # all[n].value)
                              => top[i].count >= all[n].count
                    /\ \A i, k \in 1..Len(top) :
                          (i < k /\ top[i].count = top[k].count) =>
                              FirstSeen(cells, top[i].value)
                                < FirstSeen(cells, top[k].value)

\* C17: after the null pass, each column's null count is the number of its
\* cells that are empty after trimming whitespace, and null count plus the
\* other cells of the column is the number of rows processed.
C17_NullIffBlank ==
    null_analysis # NoValue =>
        \A j \in 1..Len(Columns) :
            LET blank == {i \in 1..Len(Frame) : IsBlankCell(Frame[i][j])}
                other == {i \in 1..Len(Frame) : ~IsBlankCell(Frame[i][j])}
            IN  /\ null_analysis.null_counts[Columns[j]] = Cardinality(blank)
                /\ null_analysis.null_counts[Columns[j]] + Cardinality(other)
                      = null_analysis.total_rows

(***************************************************************************)
(* Claims about the order of the steps and about failures (Spec).          *)
(***************************************************************************)
\* the steps of run_complete_analysis, in program order
StepOrder == <<"detect", "structure", "sample", "nulls", "stats", "report", "done">>

StepRank(step) == CHOOSE i \in 1..Len(StepOrder) : StepOrder[i] = step

\* a step hands over to the step after it or fails; each result is written by
\* its own step; the report step starts when the chunk loop has ended
StepInOrder ==
    /\ pc' # pc => (pc' = "error" \/ StepRank(pc') = StepRank(pc) + 1)
    /\ file_properties' # file_properties => pc = "detect"
    /\ (structure_info' # structure_info \/ total_rows' # total_rows)
          => pc = "structure"
    /\ null_analysis' # null_analysis => pc = "nulls"
    /\ (chunk_pos' # chunk_pos \/ descriptive_stats' # descriptive_stats)
          => pc = "stats"
    /\ (result' # result \/ report_file' # report_file) => pc = "report"
    /\ pc' \in {"report", "done"} =>
          /\ file_properties' # NoValue
          /\ structure_info' # NoValue
          /\ null_analysis' # NoValue
          /\ descriptive_stats' # NoValue
          /\ chunk_pos' = Len(Frame)

\* C18: the steps of a run take place in the order detection, structure,
\* (sample,) null pass, statistics pass, report, each after the one before it
\* has finished; the report is made when all of them have given their result.
C18_StepsInOrder == [][StepInOrder]_vars

\* a run over a file with rows has gone through every step
C18_Witness ==
    /\ pc = "done"
    /\ chunk_pos > 0
    /\ result # NoValue

\* C19: a run that failed has returned no result and written no report, and
\* no step after the failed one has left a result; a result is returned, and
\* the report file written, only by a run whose every step has succeeded; on
\* a missing or unreadable file the run fails in its first step.
C19_NoPartialResult ==
    /\ pc = "error" =>
          /\ result = NoValue
          /\ report_file = "absent"
          /\ file_properties = NoValue =>
                (structure_info = NoValue /\ total_rows = 0)
          /\ structure_info = NoValue => null_analysis = NoValue
          /\ null_analysis = NoValue =>
                (chunk_pos = 0 /\ descriptive_stats = NoValue)
    /\ result # NoValue =>
          /\ pc = "done"
          /\ report_file = "written"
          /\ result.file_properties # NoValue
          /\ result.structure_info # NoValue
          /\ result.null_analysis # NoValue
          /\ result.descriptive_stats # NoValue
    /\ report_file = "written" => result # NoValue
    /\ ~readable =>
          /\ pc \in {"detect", "error"}
          /\ file_properties = NoValue
          /\ structure_info = NoValue

\* a run that failed in its last step, with every pass before it completed
C19_Witness ==
    /\ pc = "error"
    /\ descriptive_stats # NoValue
    /\ result = NoValue

(***************************************************************************)
(* Claims about the file profile and the calls of the methods (SpecCalls). *)
(***************************************************************************)
\* a pass that parses rows has been called
RowsParsed ==
    \/ structure_info # NoValue
    \/ null_analysis # NoValue
    \/ descriptive_stats # NoValue

\* C20: whatever the order in which the public methods are called, no pass
\* has parsed rows while encoding or separator was undetermined.
C20_ProfileBeforeRows ==
    RowsParsed => (encoding # None /\ separator # None)

(***************************************************************************)
(* Claims about the worked example (SpecScenario).                         *)
(***************************************************************************)
\* the run is one of SimpleDataAnalyzer (its statistics carry a type)
IsSimpleRun == encoding = "utf-8"

\* C21: on the file id,amount,category / 1,10.5,X / 2,,Y / 3,20.0, a finished
\* run gives total_rows 3; for amount count 2, sum 30.5, mean 15.25, min 10.5,
\* max 20.0, null_count 1; for category 2 unique values, top_5 [(X,1),(Y,1)]
\* and null_count 1 (numbers in hundredths).
C21_WorkedExample ==
    (pc = "done" /\ csv_rows = ScenarioRows) =>
        /\ structure_info.total_rows = 3
        /\ descriptive_stats[amount].count = 2
        /\ descriptive_stats[amount].mean = [num |-> 1525, den |-> 1]
        /\ descriptive_stats[amount].min = Num(1050)
        /\ descriptive_stats[amount].max = Num(2000)
        /\ descriptive_stats[amount].null_count = 1
        /\ IF IsSimpleRun
           THEN SumOf(numeric_stats[amount].numeric_values) = 3050
           ELSE numeric_stats[amount].sum = 3050
        /\ descriptive_stats[category].unique_values = 2
        /\ descriptive_stats[category].top_5_values =
              <<[value |-> "X", count |-> 1], [value |-> "Y", count |-> 1]>>
        /\ descriptive_stats[category].null_count = 1

\* the pandas pipeline has finished on the worked example, read in chunks
\* smaller than the file
C21_Witness ==
    /\ pc = "done"
    /\ csv_rows = ScenarioRows
    /\ ~IsSimpleRun
    /\ chunk_size < Len(csv_rows)
    /\ result # NoValue

(***************************************************************************)
(* Claims about the categorical merge (SpecMerge).                         *)
(***************************************************************************)
\* C22: the merge of two frequency maps has the union of their keys, each
\* with the sum of its two counts (0 for an absent key); {X:3} merged with
\* {X:2, Y:1} is {X:5, Y:1}.
C22_KeyWiseSum ==
    pc = "merged" =>
        /\ Keys(merged.cat_ab) = Keys(cat_a) \cup Keys(cat_b)
        /\ \A value \in Keys(cat_a) \cup Keys(cat_b) :
              CountOf(merged.cat_ab, value)
                = CountOf(cat_a, value) + CountOf(cat_b, value)
        /\ (/\ AsMap(cat_a) = AsMap(<<[value |-> "X", count |-> 3]>>)
            /\ AsMap(cat_b) = AsMap(<<[value |-> "X", count |-> 2],
                                      [value |-> "Y", count |-> 1]>>))
              => AsMap(merged.cat_ab)
                   = AsMap(<<[value |-> "X", count |-> 5],
                             [value |-> "Y", count |-> 1]>>)

\* {X:3} has been merged with {X:2, Y:1}
C22_Witness ==
    /\ pc = "merged"
    /\ cat_a = <<[value |-> "X", count |-> 3]>>
    /\ cat_b = <<[value |-> "X", count |-> 2], [value |-> "Y", count |-> 1]>>

(***************************************************************************)
(* Claims about the numeric accumulators of the statistics pass (Spec).    *)
(***************************************************************************)
\* x <= y on floats
LessEq(x, y) == Less(x, y) \/ (x = y /\ x.kind # "nan")

\* C23: in every state of the statistics pass each numeric accumulator has
\* count >= 0 and, when its count is above 0, min <= max.
C23_CountAndMinMax ==
    \A col \in DOMAIN numeric_stats :
        /\ numeric_stats[col].count >= 0
        /\ numeric_stats[col].count > 0 =>
              LessEq(numeric_stats[col].min, numeric_stats[col].max)

\* an accumulator holds values and has also been given a chunk's empty cells
C23_Witness ==
    /\ pc = "stats"
    /\ \E col \in DOMAIN numeric_stats :
          /\ numeric_stats[col].count > 0
          /\ numeric_stats[col].count < chunk_pos
          /\ col \notin DOMAIN categorical_stats

(***************************************************************************)
(* Claims about the sample of QuickDataAnalyzer (SpecQuick).               *)
(***************************************************************************)
\* the rows a pass over the sample is to read: the first min(max_rows, N)
SampleOfFile == SubSeq(csv_rows, 1, Min2(max_rows, Len(csv_rows)))

C26_NullCountNotNegative ==
    descriptive_stats # NoValue =>
        \A col \in DOMAIN descriptive_stats :
            descriptive_stats[col].null_count >= 0

\* C27: in a run the total_rows of the structure pass is not negative, and
\* it is the number of rows the null pass counts and the statistics pass
\* folds, whatever the file (empty, header only, with blank lines).
C27_RowCountsAgree ==
    /\ total_rows >= 0
    /\ structure_info # NoValue => structure_info.total_rows = total_rows
    /\ null_analysis # NoValue => null_analysis.total_rows = total_rows
    /\ pc \in {"report", "done"} => chunk_pos = total_rows

(***************************************************************************)
(* Claims about the delivery of rows and termination (SpecLive).           *)
(***************************************************************************)
\* a turn of the chunk loop folds the rows that follow those delivered so
\* far, in file order: chunk_size of them, or the fewer that are left at the
\* end of the file; the null pass has counted the data rows and not the
\* header; a pass starts at the first data row and ends after the last
RowsDeliveredOnce ==
    /\ chunk_pos' # chunk_pos =>
          /\ \/ chunk_pos' = chunk_pos + chunk_size
             \/ /\ chunk_pos' = Len(Frame)
                /\ chunk_pos' - chunk_pos \in 1..(chunk_size - 1)
          /\ chunk_pos' <= Len(Frame)
          /\ [numeric |-> numeric_stats', categorical |-> categorical_stats']
               = FoldChunk([numeric |-> numeric_stats,
                            categorical |-> categorical_stats],
                           SubSeq(Frame, chunk_pos + 1, chunk_pos'), Columns)
    /\ (chunk_pos' = chunk_pos /\ pc' = pc) =>
          (numeric_stats' = numeric_stats /\ categorical_stats' = categorical_stats)
    /\ null_analysis' # null_analysis =>
          null_analysis'.total_rows = Len(Frame)
    /\ (pc # "stats" /\ pc' = "stats") => chunk_pos' = 0
    /\ (pc = "stats" /\ pc' = "report") => chunk_pos = Len(Frame)

\* C24: every pass ends (the run comes to its end or to an error), and in a
\* pass every data row is delivered once, in file order, in batches of
\* chunk_size rows but for the last; the header is no data row and each pass
\* starts at the first data row.
C24_PassesDeliverAndTerminate ==
    /\ [][RowsDeliveredOnce]_<<pc, chunk_pos, numeric_stats, categorical_stats,
                              null_analysis>>
    /\ <>(pc \in {"done", "error"})

\* a pass has delivered a full batch and then a shorter last one
C24_Witness ==
    /\ pc = "done"
    /\ chunk_size > 1
    /\ chunk_pos > chunk_size
    /\ chunk_pos % chunk_size # 0
    /\ chunk_pos < Len(csv_rows)

====
